---- MODULE Spec2Model ----
(***************************************************************************)
(* HashMapImpl of src/libsampler/hashmap.h: an open-addressing hash map    *)
(* with linear probing, back-shift removal and growth by doubling.         *)
(*                                                                         *)
(* Pointers into the backing array map_ are modelled as slot indexes       *)
(* 0 .. capacity_-1 (p - map_); map_ - 1 is index -1 and map_end() is      *)
(* index capacity_.  A NULL Entry* result is NoEntry.                      *)
(***************************************************************************)
EXTENDS Integers, Sequences, FiniteSets, TLC

\* ---------------------------------------------------------------------------
\* Bounds of the model
\* ---------------------------------------------------------------------------
NumKeys == 2          \* key pointers are 1 .. NumKeys (never NULL)
MaxHash == 3          \* hashes passed by the caller are 0 .. MaxHash
MaxValue == 1         \* value pointers are NULL (0) or 1 .. MaxValue
MaxCapLog == 3        \* initial capacities are 2^0 .. 2^MaxCapLog
MaxCalls == 4         \* calls that may change the object, per run
MaxAnyCapLog == 2     \* arrays of any contents have capacity 2^0 .. 2^MaxAnyCapLog
WordBits == 8         \* width of the scaled-down unsigned word (uint32_t has 32)

NULL == 0
kDefaultHashMapCapacity == 8   \* static const uint32_t kDefaultHashMapCapacity
NoEntry == -1         \* a NULL Entry* (slot indexes are >= 0)

Keys == 1..NumKeys
Hashes == 0..MaxHash
Values == 0..MaxValue
InitialCapacities == {2^i : i \in 0..MaxCapLog}

\* ---------------------------------------------------------------------------
\* Entry and the match function
\* ---------------------------------------------------------------------------
\* struct Entry { void* key; void* value; uint32_t hash; int order; }
Entry(key, value, hash, order) ==
  [key |-> key, value |-> value, hash |-> hash, order |-> order]

\* What Malloced::New hands back.  Initialize writes only the key field
\* (Clear), and no code path reads value, hash or order of a slot whose key
\* is NULL, so one fixed content stands for the unread bytes.
Fresh == Entry(NULL, NULL, 0, 0)

\* Mutant of match_: a match function that takes any two keys for equal.
AnyKeysMatch(key1, key2) == TRUE

\* static bool PointersMatch(void* key1, void* key2)
PointersMatch(key1, key2) == key1 = key2

\* match_ as installed by the constructor
match_(key1, key2) == PointersMatch(key1, key2)

\* hash & (capacity_ - 1) on uint32_t, bit by bit
RECURSIVE BitAnd(_, _)
BitAnd(a, b) ==
  IF a = 0 \/ b = 0 THEN 0
  ELSE (IF a % 2 = 1 /\ b % 2 = 1 THEN 1 ELSE 0) + 2 * BitAnd(a \div 2, b \div 2)

\* base::bits::IsPowerOfTwo32
RECURSIVE IsPowerOfTwo32(_)
IsPowerOfTwo32(x) ==
  IF x <= 0 THEN FALSE
  ELSE IF x = 1 THEN TRUE
  ELSE x % 2 = 0 /\ IsPowerOfTwo32(x \div 2)

\* ---------------------------------------------------------------------------
\* The object: T = [map, capacity, occupancy] stands for (map_, capacity_,
\* occupancy_).  Every operation returns the object after the call together
\* with its result and two observations of the execution:
\*   dcheck  every DCHECK(occupancy_ < capacity_) that was executed passed
\*   wild    the execution left defined behaviour (a probe loop that never
\*           exits, or Resize reading past the old array)
\* ---------------------------------------------------------------------------
Table(map, capacity, occupancy) ==
  [map |-> map, capacity |-> capacity, occupancy |-> occupancy]

\* Mutant of Clear: resets the counter and leaves the keys in place.
ClearCounterOnly(T) == Table(T.map, T.capacity, 0)

\* Mutant of Clear: occupancy_ = 0 left out.
ClearKeysOnly(T) ==
  Table([i \in DOMAIN T.map |-> [T.map[i] EXCEPT !.key = NULL]], T.capacity,
        T.occupancy)

\* void HashMapImpl::Clear()
Clear(T) ==
  Table([i \in DOMAIN T.map |-> [T.map[i] EXCEPT !.key = NULL]], T.capacity, 0)

\* void HashMapImpl::Initialize(uint32_t capacity)
Initialize(capacity) ==
  Clear(Table([i \in 0..(capacity - 1) |-> Fresh], capacity, 0))

\* Mutant of ProbeLoop: the test p->key != NULL left out of the condition.
RECURSIVE ProbeLoopNoEmptyTest(_, _, _, _, _)
ProbeLoopNoEmptyTest(T, key, hash, p, left) ==
  IF hash # T.map[p].hash \/ ~match_(key, T.map[p].key)
  THEN IF left = 1
       THEN [p |-> p, wild |-> TRUE]
       ELSE ProbeLoopNoEmptyTest(T, key, hash,
                                 IF p + 1 >= T.capacity THEN 0 ELSE p + 1, left - 1)
  ELSE [p |-> p, wild |-> FALSE]

\* Mutant of ProbeLoop: the comparison of the hashes left out.
RECURSIVE ProbeLoopKeyOnly(_, _, _, _, _)
ProbeLoopKeyOnly(T, key, hash, p, left) ==
  IF T.map[p].key # NULL /\ ~match_(key, T.map[p].key)
  THEN IF left = 1
       THEN [p |-> p, wild |-> TRUE]
       ELSE ProbeLoopKeyOnly(T, key, hash,
                             IF p + 1 >= T.capacity THEN 0 ELSE p + 1, left - 1)
  ELSE [p |-> p, wild |-> FALSE]

\* The while loop of Probe.  left counts the slots not yet examined: once
\* all capacity_ slots were examined and passed over, the loop never exits.
RECURSIVE ProbeLoop(_, _, _, _, _)
ProbeLoop(T, key, hash, p, left) ==
  IF T.map[p].key # NULL /\ (hash # T.map[p].hash \/ ~match_(key, T.map[p].key))
  THEN IF left = 1
       THEN [p |-> p, wild |-> TRUE]
       ELSE ProbeLoop(T, key, hash, IF p + 1 >= T.capacity THEN 0 ELSE p + 1, left - 1)
  ELSE [p |-> p, wild |-> FALSE]

\* The slots on which the loop condition of Probe calls match_: && goes on
\* to its right operand only if p->key != NULL, and || to match_ only if
\* hash != p->hash is false.
RECURSIVE MatchCallsLoop(_, _, _, _, _)
MatchCallsLoop(T, key, hash, p, left) ==
  LET called == IF T.map[p].key # NULL /\ ~(hash # T.map[p].hash) THEN {p} ELSE {}
  IN  IF /\ T.map[p].key # NULL
         /\ (hash # T.map[p].hash \/ ~match_(key, T.map[p].key))
         /\ left > 1
      THEN called \cup MatchCallsLoop(T, key, hash,
                                      IF p + 1 >= T.capacity THEN 0 ELSE p + 1,
                                      left - 1)
      ELSE called

\* The calls of match_ made by Probe(key, hash)
MatchCalls(T, key, hash) ==
  MatchCallsLoop(T, key, hash, BitAnd(hash, T.capacity - 1), T.capacity)

\* Entry* HashMapImpl::Probe(void* key, uint32_t hash) const
Probe(T, key, hash) ==
  LET r == ProbeLoop(T, key, hash, BitAnd(hash, T.capacity - 1), T.capacity)
  IN  [p |-> r.p, wild |-> r.wild, dcheck |-> T.occupancy < T.capacity]

\* Entry* HashMapImpl::Lookup(void* key, uint32_t hash) const
Lookup(T, key, hash) ==
  LET r == Probe(T, key, hash)
  IN  IF T.map[r.p].key # NULL /\ ~r.wild THEN r.p ELSE NoEntry

\* Mutant of GrowthTest: > for >=.
GrowthTestStrict(occupancy, capacity) == occupancy + occupancy \div 4 > capacity

\* Mutant of GrowthTest: the first term of the sum left out.
GrowthTestQuarter(occupancy, capacity) == occupancy \div 4 >= capacity

\* Mutant of GrowthTest: a fifth for a quarter.
GrowthTestFifth(occupancy, capacity) == occupancy + occupancy \div 5 >= capacity

\* if (occupancy_ + occupancy_ / 4 >= capacity_) in unsigned arithmetic of
\* WordBits bits: the sum wraps at 2^WordBits.
GrowthTestWord(occupancy, capacity) ==
  (occupancy + occupancy \div 4) % (2 ^ WordBits) >= capacity

\* if (occupancy_ + occupancy_ / 4 >= capacity_)
\* uint32_t arithmetic; no value of the model comes near 2^32, where it wraps.
GrowthTest(occupancy, capacity) ==
  occupancy + occupancy \div 4 >= capacity

RECURSIVE LookupOrInsert(_, _, _)
RECURSIVE Resize(_)
RECURSIVE ResizeLoop(_, _, _, _, _, _)

\* Mutant of ResizeLoop: entry->value = p->value left out.
RECURSIVE ResizeLoopNoValue(_, _, _, _, _, _)
ResizeLoopNoValue(old, p, n, T, dcheck, wild) ==
  IF n = 0 \/ wild
  THEN [T |-> T, dcheck |-> dcheck, wild |-> wild]
  ELSE IF p >= old.capacity
  THEN [T |-> T, dcheck |-> dcheck, wild |-> TRUE]
  ELSE IF old.map[p].key # NULL
  THEN LET r == LookupOrInsert(T, old.map[p].key, old.map[p].hash)
           m == IF r.wild THEN r.T.map
                ELSE [r.T.map EXCEPT ![r.p].order = old.map[p].order]
       IN  ResizeLoopNoValue(old, p + 1, n - 1,
                             Table(m, r.T.capacity, r.T.occupancy),
                             dcheck /\ r.dcheck, r.wild)
  ELSE ResizeLoopNoValue(old, p + 1, n, T, dcheck, wild)

\* Mutant of ResizeLoop: entry->order = p->order left out.
RECURSIVE ResizeLoopNoOrder(_, _, _, _, _, _)
ResizeLoopNoOrder(old, p, n, T, dcheck, wild) ==
  IF n = 0 \/ wild
  THEN [T |-> T, dcheck |-> dcheck, wild |-> wild]
  ELSE IF p >= old.capacity
  THEN [T |-> T, dcheck |-> dcheck, wild |-> TRUE]
  ELSE IF old.map[p].key # NULL
  THEN LET r == LookupOrInsert(T, old.map[p].key, old.map[p].hash)
           m == IF r.wild THEN r.T.map
                ELSE [r.T.map EXCEPT ![r.p].value = old.map[p].value]
       IN  ResizeLoopNoOrder(old, p + 1, n - 1,
                             Table(m, r.T.capacity, r.T.occupancy),
                             dcheck /\ r.dcheck, r.wild)
  ELSE ResizeLoopNoOrder(old, p + 1, n, T, dcheck, wild)

\* The rehash loop of Resize: for (Entry* p = map; n > 0; p++).  old is the
\* object as it was on entry (the local map points at its array); reading
\* the slot at index old.capacity is a read past the end of that array.
ResizeLoop(old, p, n, T, dcheck, wild) ==
  IF n = 0 \/ wild
  THEN [T |-> T, dcheck |-> dcheck, wild |-> wild]
  ELSE IF p >= old.capacity
  THEN [T |-> T, dcheck |-> dcheck, wild |-> TRUE]
  ELSE IF old.map[p].key # NULL
  THEN LET r == LookupOrInsert(T, old.map[p].key, old.map[p].hash)
           m == IF r.wild THEN r.T.map
                ELSE [r.T.map EXCEPT ![r.p].value = old.map[p].value,
                                     ![r.p].order = old.map[p].order]
       IN  ResizeLoop(old, p + 1, n - 1, Table(m, r.T.capacity, r.T.occupancy),
                      dcheck /\ r.dcheck, r.wild)
  ELSE ResizeLoop(old, p + 1, n, T, dcheck, wild)

\* Mutant of Resize: the new array has four times the old capacity.
ResizeQuadruple(T) ==
  ResizeLoop(T, 0, T.occupancy, Initialize(T.capacity * 4), TRUE, FALSE)

\* void HashMapImpl::Resize()
Resize(T) ==
  ResizeLoop(T, 0, T.occupancy, Initialize(T.capacity * 2), TRUE, FALSE)

\* Mutant of LookupOrInsert: the entry found before the growth is returned,
\* without probing the new array.
LookupOrInsertNoReprobe(T, key, hash) ==
  LET r == Probe(T, key, hash)
  IN  IF r.wild
      THEN [T |-> T, p |-> r.p, dcheck |-> r.dcheck, wild |-> TRUE]
      ELSE IF T.map[r.p].key # NULL
      THEN [T |-> T, p |-> r.p, dcheck |-> r.dcheck, wild |-> FALSE]
      ELSE LET m  == [T.map EXCEPT ![r.p] = Entry(key, NULL, hash, T.occupancy)]
               T1 == Table(m, T.capacity, T.occupancy + 1)
           IN  IF GrowthTest(T1.occupancy, T1.capacity)
               THEN LET g == Resize(T1)
                    IN  [T |-> g.T, p |-> r.p, dcheck |-> r.dcheck /\ g.dcheck,
                         wild |-> g.wild]
               ELSE [T |-> T1, p |-> r.p, dcheck |-> r.dcheck, wild |-> FALSE]

\* Mutant of LookupOrInsert: p->order = occupancy_ left out, the slot keeps
\* the order it had.
LookupOrInsertNoOrder(T, key, hash) ==
  LET r == Probe(T, key, hash)
  IN  IF r.wild
      THEN [T |-> T, p |-> r.p, dcheck |-> r.dcheck, wild |-> TRUE]
      ELSE IF T.map[r.p].key # NULL
      THEN [T |-> T, p |-> r.p, dcheck |-> r.dcheck, wild |-> FALSE]
      ELSE LET m  == [T.map EXCEPT ![r.p] =
                        Entry(key, NULL, hash, T.map[r.p].order)]
               T1 == Table(m, T.capacity, T.occupancy + 1)
           IN  IF GrowthTest(T1.occupancy, T1.capacity)
               THEN LET g  == Resize(T1)
                        r2 == Probe(g.T, key, hash)
                    IN  [T |-> g.T, p |-> r2.p,
                         dcheck |-> r.dcheck /\ g.dcheck /\ r2.dcheck,
                         wild |-> g.wild \/ r2.wild]
               ELSE [T |-> T1, p |-> r.p, dcheck |-> r.dcheck, wild |-> FALSE]

\* Entry* HashMapImpl::LookupOrInsert(void* key, uint32_t hash)
LookupOrInsert(T, key, hash) ==
  LET r == Probe(T, key, hash)
  IN  IF r.wild
      THEN [T |-> T, p |-> r.p, dcheck |-> r.dcheck, wild |-> TRUE]
      ELSE IF T.map[r.p].key # NULL
      THEN [T |-> T, p |-> r.p, dcheck |-> r.dcheck, wild |-> FALSE]
      ELSE LET m  == [T.map EXCEPT ![r.p] = Entry(key, NULL, hash, T.occupancy)]
               T1 == Table(m, T.capacity, T.occupancy + 1)
           IN  IF GrowthTest(T1.occupancy, T1.capacity)
               THEN LET g  == Resize(T1)
                        r2 == Probe(g.T, key, hash)
                    IN  [T |-> g.T, p |-> r2.p,
                         dcheck |-> r.dcheck /\ g.dcheck /\ r2.dcheck,
                         wild |-> g.wild \/ r2.wild]
               ELSE [T |-> T1, p |-> r.p, dcheck |-> r.dcheck, wild |-> FALSE]

\* Mutant of MoveTest: the case of q having wrapped around (q < p) left out.
MoveTestNoWrap(p, q, r) == q > p /\ (r <= p \/ r > q)

\* Mutant of MoveTest: r < p for r <= p.
MoveTestStrict(p, q, r) ==
  \/ (q > p /\ (r < p \/ r > q))
  \/ (q < p /\ (r < p /\ r > q))

\* The test of Remove's forward scan: the entry at q has its initial position
\* r outside the range between p and q.
MoveTest(p, q, r) ==
  \/ (q > p /\ (r <= p \/ r > q))
  \/ (q < p /\ (r <= p /\ r > q))

\* The while (true) loop of Remove.  left counts the slots q has not yet
\* stepped onto; with no empty slot in the array the loop never exits.
RECURSIVE RemoveLoop(_, _, _, _, _)
RemoveLoop(T, p, q, left, moved) ==
  LET q1 == IF q + 1 = T.capacity THEN 0 ELSE q + 1
  IN  IF left = 0
      THEN [T |-> T, p |-> p, moved |-> moved, wild |-> TRUE]
      ELSE IF T.map[q1].key = NULL
      THEN [T |-> T, p |-> p, moved |-> moved, wild |-> FALSE]
      ELSE LET r == BitAnd(T.map[q1].hash, T.capacity - 1)
           IN  IF MoveTest(p, q1, r)
               THEN RemoveLoop([T EXCEPT !.map[p] = T.map[q1]], q1, q1, left - 1,
                               moved + 1)
               ELSE RemoveLoop(T, p, q1, left - 1, moved)

\* Mutant of Remove: the value is read after the scan, from the slot that is
\* cleared, instead of before it from the slot that was found.
RemoveLateValue(T, key, hash) ==
  LET r == Probe(T, key, hash)
  IN  IF r.wild \/ T.map[r.p].key = NULL
      THEN [T |-> T, value |-> NULL, found |-> FALSE, moved |-> 0,
            dcheck |-> r.dcheck, wild |-> r.wild]
      ELSE LET s  == RemoveLoop(T, r.p, r.p, T.capacity, 0)
               T1 == Table([s.T.map EXCEPT ![s.p].key = NULL], T.capacity,
                           T.occupancy - 1)
           IN  [T |-> IF s.wild THEN s.T ELSE T1, value |-> s.T.map[s.p].value,
                found |-> TRUE, moved |-> s.moved,
                dcheck |-> r.dcheck /\ T.occupancy < T.capacity, wild |-> s.wild]

\* Mutant of Remove: the early return for a key that was not found left out.
RemoveUnchecked(T, key, hash) ==
  LET r == Probe(T, key, hash)
  IN  IF r.wild
      THEN [T |-> T, value |-> NULL, found |-> FALSE, moved |-> 0,
            dcheck |-> r.dcheck, wild |-> r.wild]
      ELSE LET s  == RemoveLoop(T, r.p, r.p, T.capacity, 0)
               T1 == Table([s.T.map EXCEPT ![s.p].key = NULL], T.capacity,
                           T.occupancy - 1)
           IN  [T |-> IF s.wild THEN s.T ELSE T1, value |-> T.map[r.p].value,
                found |-> T.map[r.p].key # NULL, moved |-> s.moved,
                dcheck |-> r.dcheck /\ T.occupancy < T.capacity, wild |-> s.wild]

\* void* HashMapImpl::Remove(void* key, uint32_t hash)
\* found tells a removed NULL value from the NULL of a key that is absent;
\* moved is the number of entries the scan moved.
Remove(T, key, hash) ==
  LET r == Probe(T, key, hash)
  IN  IF r.wild \/ T.map[r.p].key = NULL
      THEN [T |-> T, value |-> NULL, found |-> FALSE, moved |-> 0,
            dcheck |-> r.dcheck, wild |-> r.wild]
      ELSE LET value == T.map[r.p].value
               s     == RemoveLoop(T, r.p, r.p, T.capacity, 0)
               T1    == Table([s.T.map EXCEPT ![s.p].key = NULL], T.capacity,
                              T.occupancy - 1)
           IN  [T |-> IF s.wild THEN s.T ELSE T1, value |-> value, found |-> TRUE,
                moved |-> s.moved,
                dcheck |-> r.dcheck /\ T.occupancy < T.capacity, wild |-> s.wild]

\* Mutant of NextLoop: the scan gives up at the first empty slot.
NextLoopStopsAtEmpty(T, p) ==
  IF p < T.capacity /\ T.map[p].key # NULL THEN p ELSE NoEntry

\* The for loop of Next: for (p++; p < end; p++)
\* Mutant of NextLoop: the scan ends one slot before map_end().
RECURSIVE NextLoopShortEnd(_, _)
NextLoopShortEnd(T, p) ==
  IF p < T.capacity - 1
  THEN IF T.map[p].key # NULL THEN p ELSE NextLoopShortEnd(T, p + 1)
  ELSE NoEntry

RECURSIVE NextLoop(_, _)
NextLoop(T, p) ==
  IF p < T.capacity
  THEN IF T.map[p].key # NULL THEN p ELSE NextLoop(T, p + 1)
  ELSE NoEntry

\* Entry* HashMapImpl::Next(Entry* p) const (Next names the next-state
\* relation below)
NextEntry(T, p) == NextLoop(T, p + 1)

\* Entry* HashMapImpl::Start() const
Start(T) == NextEntry(T, 0 - 1)

\* ---------------------------------------------------------------------------
\* State
\* ---------------------------------------------------------------------------
VARIABLES
  map_,        \* Entry* map_: the backing array, slot index -> Entry
  capacity_,   \* uint32_t capacity_
  occupancy_,  \* uint32_t occupancy_
  dcheck,      \* every DCHECK(occupancy_ < capacity_) of the last call passed
  wild,        \* the last call left defined behaviour
  last,        \* the last public call: its name, what it did, what it returned
  inserts,     \* the (key, hash) pairs handed to LookupOrInsert, as long as
               \* nothing was removed or cleared; Mixed from then on
  calls,       \* number of non-const calls made so far
  iter         \* the caller's traversal: for (p = Start(); p != NULL; p = Next(p))

vars == <<map_, capacity_, occupancy_, dcheck, wild, last, inserts, calls, iter>>

This == Table(map_, capacity_, occupancy_)

Mixed == {<<NULL, 0>>}
Idle == [phase |-> "idle", p |-> NoEntry, visited |-> <<>>]

Call(op, note, ret) == [op |-> op, note |-> note, ret |-> ret]

\* HashMapImpl::HashMapImpl(MatchFun match, uint32_t initial_capacity)
Init ==
  \E initial_capacity \in InitialCapacities :
    /\ map_ = Initialize(initial_capacity).map
    /\ capacity_ = Initialize(initial_capacity).capacity
    /\ occupancy_ = Initialize(initial_capacity).occupancy
    /\ dcheck = TRUE
    /\ wild = FALSE
    /\ last = Call("HashMapImpl", "", NULL)
    /\ inserts = {}
    /\ calls = 0
    /\ iter = Idle

Becomes(T) ==
  /\ map_' = T.map
  /\ capacity_' = T.capacity
  /\ occupancy_' = T.occupancy

\* One more non-const call, within the budget of the run; it ends a
\* traversal in progress.
NonConst ==
  /\ calls < MaxCalls
  /\ calls' = calls + 1
  /\ iter' = Idle

\* Mutant of DoLookup: a key that is absent is inserted on the way.
DoLookupInserting(key, hash) ==
  LET p == Lookup(This, key, hash)
      r == LookupOrInsert(This, key, hash)
  IN  /\ Becomes(r.T)
      /\ dcheck' = r.dcheck
      /\ wild' = r.wild
      /\ last' = Call("Lookup", IF p = NoEntry THEN "absent" ELSE "found", NULL)
      /\ UNCHANGED <<inserts, calls, iter>>

\* A call of Lookup(key, hash)
DoLookup(key, hash) ==
  LET p == Lookup(This, key, hash)
  IN  /\ Becomes(This)
      /\ dcheck' = Probe(This, key, hash).dcheck
      /\ wild' = Probe(This, key, hash).wild
      /\ last' = Call("Lookup", IF p = NoEntry THEN "absent" ELSE "found", NULL)
      /\ UNCHANGED <<inserts, calls, iter>>

\* A call of LookupOrInsert(key, hash)
DoLookupOrInsert(key, hash) ==
  LET r == LookupOrInsert(This, key, hash)
  IN  /\ NonConst
      /\ Becomes(r.T)
      /\ dcheck' = r.dcheck
      /\ wild' = r.wild
      /\ last' = Call("LookupOrInsert",
                      IF r.T.capacity # capacity_ THEN "grown"
                      ELSE IF r.T.occupancy # occupancy_ THEN "inserted"
                      ELSE "found", NULL)
      /\ inserts' = IF inserts = Mixed THEN Mixed ELSE inserts \cup {<<key, hash>>}

\* The caller stores a value through the Entry* that Lookup returned:
\* Lookup(key, hash)->value = value
DoAssign(key, hash, value) ==
  LET p == Lookup(This, key, hash)
  IN  /\ NonConst
      /\ p # NoEntry
      /\ Becomes([This EXCEPT !.map[p].value = value])
      /\ dcheck' = Probe(This, key, hash).dcheck
      /\ wild' = Probe(This, key, hash).wild
      /\ last' = Call("Assign", "", NULL)
      /\ UNCHANGED inserts

\* A call of Remove(key, hash); last.ret is the void* it returned
DoRemove(key, hash) ==
  LET r == Remove(This, key, hash)
  IN  /\ NonConst
      /\ Becomes(r.T)
      /\ dcheck' = r.dcheck
      /\ wild' = r.wild
      /\ last' = Call("Remove",
                      IF ~r.found THEN "absent"
                      ELSE IF r.moved > 0 THEN "shifted" ELSE "removed", r.value)
      /\ inserts' = IF r.found THEN Mixed ELSE inserts

\* A call of Clear()
DoClear ==
  /\ NonConst
  /\ Becomes(Clear(This))
  /\ dcheck' = TRUE
  /\ wild' = FALSE
  /\ last' = Call("Clear", IF occupancy_ > 0 THEN "emptied" ELSE "", NULL)
  /\ inserts' = Mixed

Next ==
  \/ \E key \in Keys, hash \in Hashes : DoLookup(key, hash)
  \/ \E key \in Keys, hash \in Hashes : DoLookupOrInsert(key, hash)
  \/ \E key \in Keys, hash \in Hashes, value \in Values : DoAssign(key, hash, value)
  \/ \E key \in Keys, hash \in Hashes : DoRemove(key, hash)
  \/ DoClear

Spec == Init /\ [][Next]_vars

\* p = Start(): the traversal begins
DoStart ==
  LET p == Start(This)
  IN  /\ iter' = [phase |-> IF p = NoEntry THEN "done" ELSE "running", p |-> p,
                  visited |-> IF p = NoEntry THEN <<>> ELSE <<p>>]
      /\ last' = Call("Start", "", NULL)
      /\ dcheck' = TRUE
      /\ wild' = FALSE
      /\ UNCHANGED <<map_, capacity_, occupancy_, inserts, calls>>

\* p = Next(p): the traversal goes on from the entry it holds
DoNext ==
  LET p == NextEntry(This, iter.p)
  IN  /\ iter.phase = "running"
      /\ iter' = [phase |-> IF p = NoEntry THEN "done" ELSE "running", p |-> p,
                  visited |-> IF p = NoEntry THEN iter.visited
                              ELSE Append(iter.visited, p)]
      /\ last' = Call("Next", "", NULL)
      /\ dcheck' = TRUE
      /\ wild' = FALSE
      /\ UNCHANGED <<map_, capacity_, occupancy_, inserts, calls>>

NextIter ==
  \/ \E key \in Keys, hash \in Hashes : DoLookupOrInsert(key, hash)
  \/ \E key \in Keys, hash \in Hashes, value \in Values : DoAssign(key, hash, value)
  \/ \E key \in Keys, hash \in Hashes : DoRemove(key, hash)
  \/ DoClear
  \/ DoStart
  \/ DoNext

\* Traversals between the non-const calls
SpecIter == Init /\ [][NextIter]_vars

\* HashMapImpl(match): initial_capacity takes its default value
InitDefault == Init /\ capacity_ = kDefaultHashMapCapacity

\* A call of LookupOrInsert(key, hash) on the default-constructed object
\* while it has its first array; these calls are not counted in calls.
DoFill(key, hash) ==
  LET r == LookupOrInsert(This, key, hash)
  IN  /\ capacity_ = kDefaultHashMapCapacity
      /\ Becomes(r.T)
      /\ dcheck' = r.dcheck
      /\ wild' = r.wild
      /\ last' = Call("LookupOrInsert",
                      IF r.T.capacity # capacity_ THEN "grown"
                      ELSE IF r.T.occupancy # occupancy_ THEN "inserted"
                      ELSE "found", NULL)
      /\ inserts' = inserts \cup {<<key, hash>>}
      /\ UNCHANGED <<calls, iter>>

NextDefault == \E key \in Keys, hash \in Hashes : DoFill(key, hash)

\* The default-constructed object filled by LookupOrInsert until it grows
SpecDefault == InitDefault /\ [][NextDefault]_vars

\* the slots holding a live entry
Live(T) == {i \in 0..(T.capacity - 1) : T.map[i].key # NULL}

\* The arrays Probe and Remove are run on as pure functions of the object:
\* any keys and hashes in the slots, whether or not LookupOrInsert could
\* have put them there, with occupancy_ the number of keys.  The loops read
\* neither value nor order, and no hash of an empty slot.
AnyCapacities == {2^i : i \in 0..MaxAnyCapLog}
AnySlots == {Fresh} \cup {Entry(key, NULL, hash, 0) : key \in Keys, hash \in Hashes}

InitAny ==
  \E capacity \in AnyCapacities :
    \E map \in [0..(capacity - 1) -> AnySlots] :
      LET T == Table(map, capacity, 0)
      IN  /\ Cardinality(Live(T)) < capacity
          /\ map_ = map
          /\ capacity_ = capacity
          /\ occupancy_ = Cardinality(Live(T))
          /\ dcheck = TRUE
          /\ wild = FALSE
          /\ last = Call("HashMapImpl", "", NULL)
          /\ inserts = Mixed
          /\ calls = 0
          /\ iter = Idle

NextAny ==
  \/ \E key \in Keys, hash \in Hashes : DoLookup(key, hash)
  \/ \E key \in Keys, hash \in Hashes : DoRemove(key, hash)

\* Lookup and Remove on arrays of any contents
SpecAny == InitAny /\ [][NextAny]_vars

\* The operands of the growth test as inputs: every power of two that a
\* word of WordBits bits holds as capacity_, every occupancy_ up to it.
InitGrowth ==
  \E capacity \in {2^i : i \in 0..(WordBits - 1)} :
    \E occupancy \in 0..capacity :
      /\ map_ = Initialize(capacity).map
      /\ capacity_ = capacity
      /\ occupancy_ = occupancy
      /\ dcheck = TRUE
      /\ wild = FALSE
      /\ last = Call("HashMapImpl", "", NULL)
      /\ inserts = Mixed
      /\ calls = 0
      /\ iter = Idle

\* The growth test of LookupOrInsert is evaluated
DoGrowthTest ==
  /\ last' = Call("GrowthTest",
                  IF GrowthTest(occupancy_, capacity_) THEN "grow" ELSE "keep", NULL)
  /\ UNCHANGED <<map_, capacity_, occupancy_, dcheck, wild, inserts, calls, iter>>

NextGrowth == DoGrowthTest

\* The growth test on all its operands
SpecGrowth == InitGrowth /\ [][NextGrowth]_vars

\* The loop body calls Remove(key, hash) on a live key between two steps of
\* the traversal, which then goes on from the Entry* it holds.  The caller's
\* view takes down
\*   seen    the (key, hash) of the entries the traversal returned
\*   back    the entries Remove moved from behind the Entry* held to a slot
\*           at or before it
\*   ahead   the entries Remove moved from a slot at or before the Entry*
\*           held to one behind it
\*   atp     the key removed is the one of the Entry* held
DoRemoveDuring(key, hash) ==
  LET r == Remove(This, key, hash)
      pair(T, s) == <<T.map[s].key, T.map[s].hash>>
      from(s) == Lookup(This, r.T.map[s].key, r.T.map[s].hash)
  IN  /\ iter.phase = "running"
      /\ r.found
      /\ calls < MaxCalls
      /\ calls' = calls + 1
      /\ Becomes(r.T)
      /\ dcheck' = r.dcheck
      /\ wild' = r.wild
      /\ last' = Call("Remove", IF r.moved > 0 THEN "shifted" ELSE "removed",
                      r.value)
      /\ inserts' = Mixed
      /\ iter' = [phase |-> "disturbed", p |-> iter.p, visited |-> iter.visited,
                  seen |-> [i \in 1..Len(iter.visited) |-> pair(This, iter.visited[i])],
                  back |-> {pair(r.T, s) : s \in {t \in Live(r.T) :
                                                   t <= iter.p /\ from(t) > iter.p}},
                  ahead |-> {pair(r.T, s) : s \in {t \in Live(r.T) :
                                                    t > iter.p /\ from(t) <= iter.p}},
                  atp |-> Lookup(This, key, hash) = iter.p]

\* p = Next(p) after the Remove
DoNextDuring ==
  LET p == NextEntry(This, iter.p)
  IN  /\ iter.phase = "disturbed"
      /\ iter' = [iter EXCEPT
                    !.phase = IF p = NoEntry THEN "finished" ELSE "disturbed",
                    !.p = p,
                    !.visited = IF p = NoEntry THEN @ ELSE Append(@, p),
                    !.seen = IF p = NoEntry THEN @
                             ELSE Append(@, <<map_[p].key, map_[p].hash>>)]
      /\ last' = Call("Next", "", NULL)
      /\ dcheck' = TRUE
      /\ wild' = FALSE
      /\ UNCHANGED <<map_, capacity_, occupancy_, inserts, calls>>

NextDuring ==
  \/ \E key \in Keys, hash \in Hashes : DoLookupOrInsert(key, hash)
  \/ \E key \in Keys, hash \in Hashes : DoRemove(key, hash)
  \/ DoStart
  \/ DoNext
  \/ \E key \in Keys, hash \in Hashes : DoRemoveDuring(key, hash)
  \/ DoNextDuring

\* Traversals with a Remove between two of their steps
SpecDuring == Init /\ [][NextDuring]_vars

\* ---------------------------------------------------------------------------
\* Properties
\* ---------------------------------------------------------------------------
Pairs == Keys \X Hashes

\* the slot a hash starts probing at
Ideal(T, hash) == hash % T.capacity

\* walking from the ideal slot of the entry in slot s, with wraparound, no
\* empty slot comes before s
WalkReaches(T, s) ==
  LET start == Ideal(T, T.map[s].hash)
      dist  == (s - start) % T.capacity
  IN  \A j \in 0..(dist - 1) : T.map[(start + j) % T.capacity].key # NULL

\* C1: every live entry is reached from its ideal slot (hash mod capacity) by
\* the linear walk with wraparound before any empty slot, after any sequence
\* of calls, growth included.
C1_ProbeChainsUnbroken == \A s \in Live(This) : WalkReaches(This, s)

\* C1 witness: a Remove has just taken an entry out of a table in which a
\* chain still wraps past the end of the array.
C1_Witness ==
  /\ last.op = "Remove" /\ last.note # "absent"
  /\ \E s \in Live(This) : s < Ideal(This, map_[s].hash)

\* Lookup(key, hash) returns the slot holding exactly that key and hash
Finds(T, key, hash) ==
  LET p == Lookup(T, key, hash)
  IN  p # NoEntry /\ T.map[p].key = key /\ T.map[p].hash = hash

\* C2 as stated: after inserts only, every inserted key is found with its
\* hash and Occupancy is the number of distinct keys inserted.
C2_AsStated ==
  inserts # Mixed =>
    /\ \A pr \in inserts : Finds(This, pr[1], pr[2])
    /\ occupancy_ = Cardinality({pr[1] : pr \in inserts})

\* C2: after inserts only, every inserted key is found with its hash and
\* Occupancy is the number of distinct (key, hash) pairs inserted.
C2_InsertedPairsFound ==
  inserts # Mixed =>
    /\ \A pr \in inserts : Finds(This, pr[1], pr[2])
    /\ occupancy_ = Cardinality(inserts)

\* C2 witness: inserts only, the last one growing the table, with one key
\* inserted under two hashes.
C2_Witness ==
  /\ inserts # Mixed /\ Cardinality(inserts) >= 3
  /\ last.op = "LookupOrInsert" /\ last.note = "grown"
  /\ \E a \in inserts, b \in inserts : a[1] = b[1] /\ a[2] # b[2]

\* C3: Remove of a present key leaves every other live entry findable by
\* Lookup with its key and hash, with the same key, value, hash and order.
C3_RemoveKeepsOthers ==
  \A pr \in Pairs :
    LET p == Lookup(This, pr[1], pr[2])
        r == Remove(This, pr[1], pr[2])
    IN  p # NoEntry =>
          \A s \in Live(This) \ {p} :
            LET q == Lookup(r.T, map_[s].key, map_[s].hash)
            IN  q # NoEntry /\ r.T.map[q] = map_[s]

\* C3 witness: a Remove has just moved at least one entry, and an entry
\* with a value is still live.
C3_Witness ==
  /\ last.op = "Remove" /\ last.note = "shifted"
  /\ \E s \in Live(This) : map_[s].value # NULL

\* C4: Remove of a present key returns the value stored in its entry, takes
\* Occupancy down by exactly one, and Lookup of the key is absent afterwards.
C4_RemoveReturnsValue ==
  \A pr \in Pairs :
    LET p == Lookup(This, pr[1], pr[2])
        r == Remove(This, pr[1], pr[2])
    IN  p # NoEntry =>
          /\ r.found
          /\ r.value = map_[p].value
          /\ r.T.occupancy = occupancy_ - 1
          /\ Lookup(r.T, pr[1], pr[2]) = NoEntry

\* C4 witness: a Remove that moved an entry has just returned a value that
\* is not NULL.
C4_Witness ==
  last.op = "Remove" /\ last.note = "shifted" /\ last.ret # NULL

\* C5: Remove of an absent key returns the absent result and leaves every
\* slot, the occupancy and the capacity as they were.
C5_RemoveAbsentNoOp ==
  \A pr \in Pairs :
    LET r == Remove(This, pr[1], pr[2])
    IN  Lookup(This, pr[1], pr[2]) = NoEntry =>
          ~r.found /\ r.value = NULL /\ r.T = This

\* C5 witness: Remove has just reported absent on a table that holds
\* entries, one of them with the ideal slot of an absent key.
C5_Witness ==
  /\ last.op = "Remove" /\ last.note = "absent" /\ last.ret = NULL
  /\ occupancy_ >= 2
  /\ \E pr \in Pairs : /\ Lookup(This, pr[1], pr[2]) = NoEntry
                       /\ map_[Ideal(This, pr[2])].key # NULL

\* C6: after every public call Occupancy / Capacity <= 0.8 and Capacity is
\* a power of two, from every initial capacity, 1 and 2 included.
C6_LoadFactor ==
  /\ 5 * occupancy_ <= 4 * capacity_
  /\ IsPowerOfTwo32(capacity_)

\* C6 witness: a table constructed with capacity 1 has grown on its first
\* insertion.
C6_Witness ==
  /\ last.op = "LookupOrInsert" /\ last.note = "grown"
  /\ capacity_ = 2 /\ occupancy_ = 1

\* C7: occupancy < capacity after every public call, and every
\* DCHECK(occupancy_ < capacity_) passes: on each entry to Probe and at the
\* start of Remove's scan, in the calls made and in every call that could
\* be made next.
C7_OccupancyBelowCapacity ==
  /\ occupancy_ < capacity_
  /\ dcheck
  /\ \A pr \in Pairs :
       /\ Probe(This, pr[1], pr[2]).dcheck
       /\ LookupOrInsert(This, pr[1], pr[2]).dcheck
       /\ Remove(This, pr[1], pr[2]).dcheck

\* C7 witness: an insertion filled a table of capacity 2 completely, and
\* the growth and its re-insertions and re-probe ran.
C7_Witness ==
  /\ last.op = "LookupOrInsert" /\ last.note = "grown"
  /\ capacity_ = 4 /\ occupancy_ = 2 /\ dcheck

\* visited is strictly increasing
Increasing(visited) ==
  \A i \in 1..(Len(visited) - 1) : visited[i] < visited[i + 1]

Range(visited) == {visited[i] : i \in 1..Len(visited)}

\* C8: a traversal by Start and Next with no mutation in between visits
\* every live entry exactly once, in strictly increasing slot order, and no
\* empty slot; Start returns none exactly when no entry is live.
C8_TraversalVisitsLive ==
  /\ (Start(This) = NoEntry) <=> (Live(This) = {})
  /\ iter.phase # "idle" =>
       /\ Increasing(iter.visited)
       /\ Range(iter.visited) \subseteq Live(This)
  /\ iter.phase = "done" =>
       /\ Range(iter.visited) = Live(This)
       /\ Len(iter.visited) = Cardinality(Live(This))

\* C8 witness: a traversal has ended after visiting three entries with an
\* empty slot between two of them.
C8_Witness ==
  /\ iter.phase = "done" /\ Len(iter.visited) >= 3
  /\ \E i \in 1..(Len(iter.visited) - 1) : iter.visited[i] + 1 < iter.visited[i + 1]

\* C9: Clear sets Occupancy to 0, leaves Capacity as it was and makes every
\* key absent for Lookup; a key inserted afterwards is found again.
C9_ClearEmpties ==
  LET c == Clear(This)
  IN  /\ c.occupancy = 0
      /\ c.capacity = capacity_
      /\ \A pr \in Pairs : Lookup(c, pr[1], pr[2]) = NoEntry
      /\ \A pr \in Pairs :
           LET r == LookupOrInsert(c, pr[1], pr[2])
           IN  Finds(r.T, pr[1], pr[2]) /\ Lookup(r.T, pr[1], pr[2]) = r.p
      /\ last.op = "Clear" =>
           /\ occupancy_ = 0
           /\ \A pr \in Pairs : Lookup(This, pr[1], pr[2]) = NoEntry

\* C9 witness: Clear has just emptied a table that held entries: slots
\* still carry the hashes of two of them and a value a caller stored.
C9_Witness ==
  /\ last.op = "Clear" /\ last.note = "emptied" /\ occupancy_ = 0
  /\ Cardinality({i \in 0..(capacity_ - 1) : map_[i].value # NULL}) >= 1
  /\ Cardinality({i \in 0..(capacity_ - 1) : map_[i].hash # 0}) >= 2

\* C10: a second LookupOrInsert with the same key and hash returns the same
\* slot of the current table as the first, also after a first call that
\* grew the table, and changes neither Occupancy, Capacity nor any slot.
C10_LookupOrInsertIdempotent ==
  \A pr \in Pairs :
    LET first  == LookupOrInsert(This, pr[1], pr[2])
        second == LookupOrInsert(first.T, pr[1], pr[2])
    IN  /\ second.p = first.p
        /\ second.T = first.T
        /\ first.T.map[first.p].key = pr[1]
        /\ first.T.map[first.p].hash = pr[2]

\* C10 witness: the table is one insertion short of growing, and the slot
\* of some new key in the grown table differs from its slot before growth.
C10_Witness ==
  /\ last.op = "LookupOrInsert"
  /\ \E pr \in Pairs :
       /\ Lookup(This, pr[1], pr[2]) = NoEntry
       /\ LookupOrInsert(This, pr[1], pr[2]).T.capacity = 2 * capacity_
       /\ LookupOrInsert(This, pr[1], pr[2]).p # Probe(This, pr[1], pr[2]).p
\* C11: the capacity changes only in a LookupOrInsert that inserts a new key
\* and then has occupancy + occupancy/4 >= capacity, and it is then exactly
\* twice what it was; every other LookupOrInsert and every Remove and Clear
\* leaves it as it was (Lookup, Start and Next are const and return no
\* object).  A table started at capacity 8 has capacity 8 through its first
\* 6 distinct inserts and capacity 16 after the 7th.
C11_CapacityDoublesOnInsert ==
  /\ \A pr \in Pairs :
       LET r == LookupOrInsert(This, pr[1], pr[2])
           placed == occupancy_ + 1
           grows == /\ Lookup(This, pr[1], pr[2]) = NoEntry
                    /\ placed + placed \div 4 >= capacity_
       IN  /\ grows => r.T.capacity = 2 * capacity_
           /\ ~grows => r.T.capacity = capacity_
           /\ Remove(This, pr[1], pr[2]).T.capacity = capacity_
  /\ Clear(This).capacity = capacity_
  /\ Cardinality(inserts) <= 6 => capacity_ = 8
  /\ Cardinality(inserts) = 7 => capacity_ = 16

\* C11 witness: the 7th distinct insert into the default-constructed table
\* has just grown it to capacity 16.
C11_Witness ==
  /\ last.op = "LookupOrInsert" /\ last.note = "grown"
  /\ Cardinality(inserts) = 7 /\ capacity_ = 16 /\ occupancy_ = 7
\* the entries in the live slots
Entries(T) == {T.map[s] : s \in Live(T)}

\* C12: when LookupOrInsert grows the table, every entry live just before
\* the growth, the new one included, is live in the new table with the same
\* key, hash, value and order and is found by Lookup with its key and hash;
\* the new table holds no other entry and the occupancy is as before the
\* growth.
C12_GrowthPreservesEntries ==
  \A pr \in Pairs :
    LET r == LookupOrInsert(This, pr[1], pr[2])
        before == Entries(This) \cup {Entry(pr[1], NULL, pr[2], occupancy_)}
    IN  r.T.capacity # capacity_ =>
          /\ Entries(r.T) = before
          /\ Cardinality(Live(r.T)) = Cardinality(before)
          /\ r.T.occupancy = occupancy_ + 1
          /\ \A e \in before :
               LET q == Lookup(r.T, e.key, e.hash)
               IN  q # NoEntry /\ r.T.map[q] = e

\* C12 witness: a LookupOrInsert has just grown a table that held an entry
\* with a value; the entries do not lie in the order of their insertion.
C12_Witness ==
  /\ last.op = "LookupOrInsert" /\ last.note = "grown"
  /\ occupancy_ >= 2
  /\ \E s \in Live(This) : map_[s].value # NULL
  /\ \E s \in Live(This), t \in Live(This) :
       s < t /\ map_[s].order > map_[t].order
\* C13: a call of Lookup, found or absent, leaves every slot's key, value,
\* hash and order, the occupancy and the capacity as they were before it.
C13_LookupLeavesTable ==
  [][last'.op = "Lookup" =>
       /\ \A i \in 0..(capacity_ - 1) : map_'[i] = map_[i]
       /\ DOMAIN map_' = DOMAIN map_
       /\ occupancy_' = occupancy_
       /\ capacity_' = capacity_]_vars

\* C13 witness: Lookup has just found a key in a table where an entry lies
\* away from its ideal slot, and some other key is absent.
C13_Witness ==
  /\ last.op = "Lookup" /\ last.note = "found"
  /\ \E s \in Live(This) : s # Ideal(This, map_[s].hash)
  /\ \E pr \in Pairs : Lookup(This, pr[1], pr[2]) = NoEntry
\* C14: in every reachable state, after any sequence of LookupOrInsert,
\* Remove, Clear and growth, the occupancy counter equals the number of
\* slots whose key is not the empty sentinel.
C14_OccupancyCountsLiveSlots == occupancy_ = Cardinality(Live(This))

\* C14 witness: after three insertions a Remove has just moved an entry,
\* and two entries are left.
C14_Witness ==
  /\ last.op = "Remove" /\ last.note = "shifted"
  /\ occupancy_ = 2 /\ calls = 4
\* C15: with occupancy < capacity on entry, the loop of Probe and the scan
\* of Remove terminate, each within capacity steps and Probe at an empty
\* slot or a match, for every contents of the array, key and hash, chains
\* that wrap past the end of the array included.
C15_LoopsTerminate ==
  /\ ~wild
  /\ occupancy_ < capacity_ =>
       \A pr \in Pairs :
         LET r == Probe(This, pr[1], pr[2])
         IN  /\ ~r.wild
             /\ \/ map_[r.p].key = NULL
                \/ map_[r.p].hash = pr[2] /\ match_(pr[1], map_[r.p].key)
             /\ ~Remove(This, pr[1], pr[2]).wild

\* C15 witness: Lookup has just reported absent on an array with a single
\* empty slot, where a probe for an absent key starts at the last slot and
\* runs on from slot 0.
C15_Witness ==
  /\ last.op = "Lookup" /\ last.note = "absent"
  /\ capacity_ = 2 ^ MaxAnyCapLog /\ occupancy_ = capacity_ - 1
  /\ \E pr \in Pairs :
       /\ Lookup(This, pr[1], pr[2]) = NoEntry
       /\ Ideal(This, pr[2]) = capacity_ - 1
       /\ Probe(This, pr[1], pr[2]).p < capacity_ - 1
\* C16: for every power-of-two capacity, 1 and 2 included, and every
\* occupancy from 0 to the capacity, the growth test occupancy + occupancy/4
\* >= capacity with truncating division, on integers and on unsigned words
\* alike, is true exactly when 5 * occupancy >= 4 * capacity.
C16_GrowthTestIsLoadFactor ==
  (IsPowerOfTwo32(capacity_) /\ 0 <= occupancy_ /\ occupancy_ <= capacity_) =>
    /\ GrowthTest(occupancy_, capacity_) <=> 5 * occupancy_ >= 4 * capacity_
    /\ GrowthTestWord(occupancy_, capacity_) <=> 5 * occupancy_ >= 4 * capacity_
    /\ last.op = "GrowthTest" =>
         (last.note = "grow" <=> 5 * occupancy_ >= 4 * capacity_)

\* C16 witness: the test has just been true on the largest operands, the
\* highest power of two of the word as capacity and as occupancy.
C16_Witness ==
  /\ last.op = "GrowthTest" /\ last.note = "grow"
  /\ capacity_ = 2 ^ (WordBits - 1) /\ occupancy_ = capacity_
\* the order given to the entry that LookupOrInsert(key, hash) makes is
\* greater than the order of every entry of T
OrderAboveAll(T, key, hash) ==
  LET r == LookupOrInsert(T, key, hash)
  IN  \A s \in Live(T) : r.T.map[r.p].order > T.map[s].order

\* C17 as stated, for the earlier entries that are still in the table:
\* after any sequence of operations a newly inserted entry gets an order
\* strictly greater than the order given to every entry inserted before it.
C17_AsStated ==
  \A pr \in Pairs :
    Lookup(This, pr[1], pr[2]) = NoEntry => OrderAboveAll(This, pr[1], pr[2])

\* C17: as long as no entry has been removed (no Remove of a present key,
\* no Clear), a newly inserted entry gets an order strictly greater than
\* the order given to every entry inserted before it.
C17_OrderIncreasesUntilRemoval ==
  inserts # Mixed =>
    \A pr \in Pairs :
      Lookup(This, pr[1], pr[2]) = NoEntry => OrderAboveAll(This, pr[1], pr[2])

\* C17 witness: nothing was removed, and the third distinct insertion has
\* just been made; the entries do not lie in the order of their insertion.
C17_Witness ==
  /\ inserts # Mixed /\ Cardinality(inserts) = 3
  /\ last.op = "LookupOrInsert" /\ last.note = "inserted"
  /\ \E s \in Live(This), t \in Live(This) : s < t /\ map_[s].order > map_[t].order
\* C18: as long as no entry has been removed (no Remove of a present key,
\* no Clear), growths included, a new entry gets as order the number of
\* distinct entries inserted before it and every entry keeps its order, so
\* the orders of the live entries are exactly 0 .. occupancy-1 with no
\* duplicates.
C18_OrderIsInsertionRank ==
  inserts # Mixed =>
    /\ {map_[s].order : s \in Live(This)} = 0..(occupancy_ - 1)
    /\ Cardinality(Live(This)) = occupancy_
    /\ \A pr \in Pairs :
         LET r == LookupOrInsert(This, pr[1], pr[2])
         IN  /\ Lookup(This, pr[1], pr[2]) = NoEntry =>
                  r.T.map[r.p].order = Cardinality(inserts)
             /\ \A s \in Live(This) :
                  LET q == Lookup(r.T, map_[s].key, map_[s].hash)
                  IN  q # NoEntry /\ r.T.map[q].order = map_[s].order

\* C18 witness: nothing was removed, the second distinct insertion has just
\* grown the table, and the later entry lies in the lower slot.
C18_Witness ==
  /\ inserts # Mixed /\ Cardinality(inserts) = 2 /\ occupancy_ = 2
  /\ last.op = "LookupOrInsert" /\ last.note = "grown"
  /\ \E s \in Live(This), t \in Live(This) : s < t /\ map_[s].order = 1
\* no live entry of T has this key with this hash
NotStored(T, key, hash) ==
  \A t \in Live(T) : ~(T.map[t].key = key /\ T.map[t].hash = hash)

\* C19: a slot matches a probe only if its cached hash equals the supplied
\* hash and match_ holds, and match_ is never called on a slot whose cached
\* hash differs; so for a key stored with hash h, Lookup and Remove with the
\* key and a hash h' # h report absent, also when h' and h have the same
\* ideal slot, and LookupOrInsert with the key and h' makes a second live
\* entry.
C19_HashThenPredicate ==
  /\ \A pr \in Pairs :
       LET p == Lookup(This, pr[1], pr[2])
       IN  /\ p # NoEntry => map_[p].hash = pr[2] /\ match_(pr[1], map_[p].key)
           /\ \A s \in MatchCalls(This, pr[1], pr[2]) : map_[s].hash = pr[2]
  /\ \A s \in Live(This), h \in Hashes :
       LET key == map_[s].key
           r == LookupOrInsert(This, key, h)
       IN  (h # map_[s].hash /\ NotStored(This, key, h)) =>
             /\ Lookup(This, key, h) = NoEntry
             /\ ~Remove(This, key, h).found
             /\ Remove(This, key, h).T = This
             /\ r.T.occupancy = occupancy_ + 1
             /\ Finds(r.T, key, h) /\ Finds(r.T, key, map_[s].hash)
             /\ Lookup(r.T, key, h) # Lookup(r.T, key, map_[s].hash)

\* C19 witness: Remove has just reported absent while a key is stored whose
\* hash has the same ideal slot as another hash under which it is not
\* stored.
C19_Witness ==
  /\ last.op = "Remove" /\ last.note = "absent"
  /\ \E s \in Live(This), h \in Hashes :
       /\ h # map_[s].hash
       /\ Ideal(This, h) = Ideal(This, map_[s].hash)
       /\ NotStored(This, map_[s].key, h)
       /\ MatchCalls(This, map_[s].key, h) = {}
\* how often the traversal returned the entry pr
Times(seen, pr) == Cardinality({i \in 1..Len(seen) : seen[i] = pr})

\* C20: a Remove of a live key between two steps of a traversal, of the
\* entry at the cursor for one, breaks the traversal when its back-shift
\* relocates another live entry across the cursor: an entry moved to a slot
\* at or before the cursor is still live at the end and was never visited,
\* and an entry moved from there to a slot behind the cursor is visited
\* twice.
C20_RemoveBreaksTraversal ==
  iter.phase = "finished" =>
    /\ \A pr \in iter.back :
         Lookup(This, pr[1], pr[2]) # NoEntry /\ Times(iter.seen, pr) = 0
    /\ \A pr \in iter.ahead :
         Lookup(This, pr[1], pr[2]) # NoEntry /\ Times(iter.seen, pr) = 2

\* C20 witness: a traversal has ended after a Remove of the entry at its
\* cursor moved a live entry to the cursor's slot; it never visited that
\* entry.
C20_Witness ==
  /\ iter.phase = "finished" /\ iter.atp
  /\ \E pr \in iter.back :
       Lookup(This, pr[1], pr[2]) = iter.visited[Len(iter.visited)]
====
